---- MODULE Spec2Model ----
(***************************************************************************)
(* A model of the agent execution core of reddit-analyzer:                 *)
(*   internal/agent/agent/agent.go   Agent.Run and its helpers             *)
(*   internal/agent/agent/prompt.go  Prompt.Render                         *)
(* together with the earlier revision of Agent.Run whose limit check is    *)
(* active (src/unnamed/part_000, isLimitReached in src/unnamed/part_006).  *)
(*                                                                         *)
(* One run of Agent.Run is a sequential process; pc is its position.  The  *)
(* Model Client and the tools are the environment: their replies are       *)
(* chosen nondeterministically from small sets.                            *)
(***************************************************************************)
EXTENDS Integers, Sequences, FiniteSets, TLC

\* ---------------------------------------------------------------- bounds
MaxCalls == 2      \* Model Client calls the environment answers in one run
MaxToolCalls == 2  \* tool calls the model requests in one run, over all messages
MaxLimit == 1      \* largest configured tool limit
ConcCalls == 1     \* Model Client calls per run when two runs interleave
ConcToolCalls == 1 \* tool calls requested per run when two runs interleave

\* ------------------------------------------------------- input domains
ToolNames == {"add", "sub"}                 \* names that may be registered
CallNames == ToolNames \cup {"nope"}        \* names the model may request
Contents  == {"valid", "invalid", "malformed", "undecodable"}
Templates == {"default", "empty", "malformed"}
Inputs    == {"ok", "unmarshalable"}

VARIABLES
    tools,      \* a.tools: the registered tool names
    limits,     \* a.limits: tool name -> limit
    template,   \* a.systemPrompt: which template the agent renders
    input,      \* the caller's input: whether json.Marshal accepts it
    legacy,     \* TRUE: Run of src/unnamed/part_000 (limit check active)
    pc,         \* position of Run
    messages,   \* state.Messages
    usage,      \* usage: tool name -> count (a key exists once incremented)
    cur,        \* llmMessage, the message of the current iteration
    idx,        \* callTools: index of the next tool call of the batch
    results,    \* callTools: results collected so far
    result,     \* the *AgentResult Run returns
    err,        \* the error Run returns
    llmCalls,   \* number of Model Client calls made
    llmFailed,  \* a Model Client call returned an error
    invoked,    \* the tool invocations made, in order: run, tool name, outcome
    replies,    \* the messages the Model Client returned, in order, with the run
    self,       \* the run that is executing
    parked,     \* the locals of the other run of the same Agent, if there is one
    request,    \* the chat messages the OpenAI Model Client sent last
    completion  \* the completion choice the OpenAI API returned last

vars == <<tools, limits, template, input, legacy, pc, messages, usage, cur,
          idx, results, result, err, llmCalls, llmFailed, invoked, replies,
          self, parked, request, completion>>

config == <<tools, limits, template, input, legacy>>

sched == <<self, parked>>

wire == <<request, completion>>

\* ------------------------------------------------------------- errors
\* An error is what errors.Is can identify in it (is) and its message text,
\* outermost part first (text).  The nil error has an empty text.
NoErr == [is |-> {}, text |-> <<>>]

\* errors.New(k): a sentinel
Sentinel(k) == [is |-> {k}, text |-> <<k>>]

\* an error of no sentinel kind (json, template, tool or client failure)
Plain(what) == [is |-> {}, text |-> <<what>>]

\* fmt.Errorf("%w: %s", k, e): wraps the sentinel k; e is only formatted
WrapKind(k, e) == [is |-> {k}, text |-> <<k>> \o e.text]

\* fmt.Errorf("<what>: %w", e): keeps what e wraps
WrapText(what, e) == [is |-> e.is, text |-> <<what>> \o e.text]

\* ------------------------------------------------------------- values
EmptyMap == [t \in {} |-> 0]

Count(u, t) == IF t \in DOMAIN u THEN u[t] ELSE 0

Inc_twice(u, t) == [x \in DOMAIN u \cup {t} |-> IF x = t THEN Count(u, t) + 2 ELSE u[x]]

\* usage[name]++ on a Go map
Inc(u, t) == [x \in DOMAIN u \cup {t} |-> IF x = t THEN Count(u, t) + 1 ELSE u[x]]

NewLLMMessage(msgType, content) ==
    [type |-> msgType, content |-> content, toolCalls |-> <<>>,
     toolResults |-> <<>>, end |-> FALSE]

NoMsg == NewLLMMessage("none", "")

NilResult == [nil |-> TRUE, data |-> "none", messages |-> <<>>]

Last(s) == s[Len(s)]

\* sequences over S of length 0..n
RECURSIVE SeqsUpTo(_, _)
SeqsUpTo(S, n) ==
    IF n = 0 THEN {<<>>}
    ELSE LET shorter == SeqsUpTo(S, n - 1)
         IN  shorter \cup {Append(s, x) : s \in {q \in shorter : Len(q) = n - 1}, x \in S}

\* the tool calls of one assistant message; the call id is the position
NewLLMToolCalls(names) == [i \in 1..Len(names) |-> [id |-> i, name |-> names[i]]]

\* the number of tool calls requested by the messages of a transcript
RECURSIVE Requested(_)
Requested(msgs) ==
    IF msgs = <<>> THEN 0
    ELSE Len(Last(msgs).toolCalls) + Requested(SubSeq(msgs, 1, Len(msgs) - 1))

LimitMaps == UNION {[D -> 0..MaxLimit] : D \in SUBSET ToolNames}

\* ------------------------------------------------------ Prompt.Render
\* The rendered text is the sequence of the substituted values; the empty
\* text is <<>>.  A map key the template names but args lacks renders as
\* "<no value>" (text/template's default), not as an error.
Render(tmpl, args) ==
    CASE tmpl = "malformed" ->
           [text |-> <<>>,
            err  |-> WrapText("failed to parse prompt template", Plain("template"))]
      [] tmpl = "empty" -> [text |-> <<>>, err |-> NoErr]
      [] tmpl = "missingvar" ->
           [text |-> <<args.tools, args.tools_usage, args.calling_limits,
                       args.output_schema, args.behavior, "<no value>">>,
            err  |-> NoErr]
      [] OTHER ->
           [text |-> <<args.tools, args.tools_usage, args.calling_limits,
                       args.output_schema, args.behavior>>,
            err  |-> NoErr]

createSystemPrompt(u) ==
    Render(template, [tools          |-> tools,
                      tools_usage    |-> u,
                      calling_limits |-> limits,
                      output_schema  |-> "schema",
                      behavior       |-> "behavior"])

\* ------------------------------------------------------- createResult
\* What the content of a message is to the validator and the decoder.  The
\* system prompt is prose, not JSON.
ContentClass(m) == IF m.type = "assistant" THEN m.content ELSE "malformed"

createResult_novalidation(msgs) ==
    LET c == ContentClass(Last(msgs))
    IN  IF c = "malformed"
        THEN [res |-> NilResult, err |-> WrapKind("ErrInvalidResultSchema", Plain("loader"))]
        ELSE IF c = "undecodable"
        THEN [res |-> NilResult, err |-> Plain("json")]
        ELSE [res |-> [nil |-> FALSE, data |-> c, messages |-> msgs], err |-> NoErr]

createResult_lastonly(msgs) ==
    LET c == ContentClass(Last(msgs))
    IN  IF c = "malformed"
        THEN [res |-> NilResult, err |-> WrapKind("ErrInvalidResultSchema", Plain("loader"))]
        ELSE IF c = "invalid"
        THEN [res |-> NilResult, err |-> WrapKind("ErrInvalidResultSchema", Plain("validation"))]
        ELSE IF c = "undecodable"
        THEN [res |-> NilResult, err |-> Plain("json")]
        ELSE [res |-> [nil |-> FALSE, data |-> c, messages |-> <<Last(msgs)>>], err |-> NoErr]

createResult(msgs) ==
    LET c == ContentClass(Last(msgs))
    IN  IF c = "malformed"
        THEN [res |-> NilResult, err |-> WrapKind("ErrInvalidResultSchema", Plain("loader"))]
        ELSE IF c = "invalid"
        THEN [res |-> NilResult, err |-> WrapKind("ErrInvalidResultSchema", Plain("validation"))]
        ELSE IF c = "undecodable"
        THEN [res |-> NilResult, err |-> Plain("json")]
        ELSE [res |-> [nil |-> FALSE, data |-> c, messages |-> msgs], err |-> NoErr]

\* ----------------------------------------------------- isLimitReached
isLimitReached_any(u, lim) ==
    LET limitReached == {t \in DOMAIN lim : t \in DOMAIN u /\ u[t] >= lim[t]}
    IN  Cardinality(limitReached) > 0

isLimitReached(u, lim) ==
    LET limitReached == {t \in DOMAIN lim : t \in DOMAIN u /\ u[t] >= lim[t]}
    IN  Cardinality(limitReached) = Cardinality(DOMAIN lim)

\* The limit check at the top of the loop runs in part_000; in agent.go the
\* block is commented out.
LimitCheckActive_always == TRUE

LimitCheckActive == legacy

\* What Run returns when the limit check stops it, from createResult's r.
LimitReachedReturn_noresult(r) ==
    IF r.err # NoErr
    THEN [res |-> NilResult, err |-> WrapKind("ErrLimitReached", r.err)]
    ELSE [res |-> NilResult, err |-> Sentinel("ErrLimitReached")]

LimitReachedReturn(r) ==
    IF r.err # NoErr
    THEN [res |-> NilResult, err |-> WrapKind("ErrLimitReached", r.err)]
    ELSE [res |-> r.res, err |-> Sentinel("ErrLimitReached")]

\* llmMessage.End
IsEnd_never(m) == FALSE

IsEnd(m) == m.end

InitMessages_userfirst(sys, usr) == <<usr, sys>>

\* the Conversation State createInitState builds
InitMessages(sys, usr) == IF legacy THEN <<sys>> ELSE <<sys, usr>>

AddMessage_replace(msgs, msg) == [msgs EXCEPT ![Len(msgs)] = msg]

\* AgentState.AddMessage
AddMessage(msgs, msg) == Append(msgs, msg)

\* state.Messages[0].Content = newSystemPrompt
SetSystemPrompt(msgs, text) == [msgs EXCEPT ![1].content = text]

\* ------------------------------------------------- two interleaved runs
\* The locals of one call of Run.
RunLocals ==
    [pc |-> pc, messages |-> messages, usage |-> usage, cur |-> cur,
     idx |-> idx, results |-> results, result |-> result, err |-> err,
     llmCalls |-> llmCalls, llmFailed |-> llmFailed]

StartLocals ==
    [pc |-> "start", messages |-> <<>>, usage |-> EmptyMap, cur |-> NoMsg,
     idx |-> 0, results |-> <<>>, result |-> NilResult, err |-> NoErr,
     llmCalls |-> 0, llmFailed |-> FALSE]

\* no other run
NoRun == [StartLocals EXCEPT !.pc = "none"]

Concurrent == parked.pc # "none"

\* the environment's bounds
CallBound == IF Concurrent THEN ConcCalls ELSE MaxCalls

ToolCallBound == IF Concurrent THEN ConcToolCalls ELSE MaxToolCalls

ReplyContents == IF Concurrent THEN {"valid", "invalid"} ELSE Contents

ReplyNames == IF Concurrent THEN {"add", "nope"} ELSE CallNames

\* no completion choice
NoChoice == [content |-> "", finishReason |-> "none", toolCalls |-> <<>>]

\* ---------------------------------------------------------------- Init
InitRun ==
    /\ pc = "start"
    /\ messages = <<>>
    /\ usage = EmptyMap
    /\ cur = NoMsg
    /\ idx = 0
    /\ results = <<>>
    /\ result = NilResult
    /\ err = NoErr
    /\ llmCalls = 0
    /\ llmFailed = FALSE
    /\ invoked = <<>>
    /\ replies = <<>>
    /\ self = 1
    /\ request = <<>>
    /\ completion = NoChoice

InitConfig ==
    /\ tools \in SUBSET ToolNames
    /\ limits \in LimitMaps
    /\ template \in Templates

\* agent.go
Init ==
    /\ InitConfig
    /\ input \in Inputs
    /\ legacy = FALSE
    /\ parked = NoRun
    /\ InitRun

\* part_000: Run takes no input
InitLegacy ==
    /\ InitConfig
    /\ input = "ok"
    /\ legacy = TRUE
    /\ parked = NoRun
    /\ InitRun

InitBoth == Init \/ InitLegacy

\* ------------------------------------------------------------- actions
Return(res, e) ==
    /\ result' = res
    /\ err' = e
    /\ pc' = "done"

CreateInitState_noemptycheck ==
    /\ pc = "start"
    /\ LET r   == createSystemPrompt(EmptyMap)
           sys == NewLLMMessage("system", r.text)
           usr == NewLLMMessage("user", "input")
       IN  IF r.err # NoErr
           THEN /\ Return(NilResult, WrapText("failed to create system prompt", r.err))
                /\ UNCHANGED messages
           ELSE IF ~legacy /\ input = "unmarshalable"
           THEN /\ Return(NilResult, WrapText("failed to marshal input", Plain("json")))
                /\ UNCHANGED messages
           ELSE /\ messages' = InitMessages(sys, usr)
                /\ pc' = "loop"
                /\ UNCHANGED <<result, err>>
    /\ UNCHANGED <<config, sched, wire, replies, usage, cur, idx, results, llmCalls, llmFailed, invoked>>

\* Run's first statements and createInitState
CreateInitState ==
    /\ pc = "start"
    /\ LET r   == createSystemPrompt(EmptyMap)
           sys == NewLLMMessage("system", r.text)
           usr == NewLLMMessage("user", "input")
       IN  IF r.err # NoErr
           THEN /\ Return(NilResult, WrapText("failed to create system prompt", r.err))
                /\ UNCHANGED messages
           ELSE IF ~legacy /\ r.text = <<>>
           THEN /\ Return(NilResult, Sentinel("ErrEmptySystemPrompt"))
                /\ UNCHANGED messages
           ELSE IF ~legacy /\ input = "unmarshalable"
           THEN /\ Return(NilResult, WrapText("failed to marshal input", Plain("json")))
                /\ UNCHANGED messages
           ELSE /\ messages' = InitMessages(sys, usr)
                /\ pc' = "loop"
                /\ UNCHANGED <<result, err>>
    /\ UNCHANGED <<config, sched, wire, replies, usage, cur, idx, results, llmCalls, llmFailed, invoked>>

RunLoop_capped ==
    /\ pc = "loop"
    /\ IF llmCalls >= 1
       THEN Return(NilResult, Sentinel("ErrLimitReached"))
       ELSE /\ pc' = "call"
            /\ UNCHANGED <<result, err>>
    /\ UNCHANGED <<config, sched, wire, replies, messages, usage, cur, idx, results, llmCalls, llmFailed, invoked>>

\* the top of the loop: the limit check
RunLoop ==
    /\ pc = "loop"
    /\ IF LimitCheckActive /\ isLimitReached(usage, limits)
       THEN LET r == LimitReachedReturn(createResult(messages))
            IN  Return(r.res, r.err)
       ELSE /\ pc' = "call"
            /\ UNCHANGED <<result, err>>
    /\ UNCHANGED <<config, sched, wire, replies, messages, usage, cur, idx, results, llmCalls, llmFailed, invoked>>

\* a.llm.Call returns an error
LLMCallFail_retry ==
    /\ pc = "call"
    /\ llmCalls < CallBound
    /\ llmCalls' = llmCalls + 1
    /\ llmFailed' = TRUE
    /\ UNCHANGED <<config, sched, wire, replies, pc, messages, usage, cur, idx, results, result, err, invoked>>

LLMCallFail ==
    /\ pc = "call"
    /\ llmCalls < CallBound
    /\ llmCalls' = llmCalls + 1
    /\ llmFailed' = TRUE
    /\ Return(NilResult, WrapKind("ErrLLMCall", Plain("llm")))
    /\ UNCHANGED <<config, sched, wire, replies, messages, usage, cur, idx, results, invoked>>

\* a.llm.Call returns a message
LLMCallOk ==
    /\ pc = "call"
    /\ llmCalls < CallBound
    /\ \E c \in ReplyContents, e \in BOOLEAN,
          names \in SeqsUpTo(ReplyNames, ToolCallBound - Requested(messages)) :
          /\ legacy => Len(names) <= 1
          /\ cur' = [type |-> "assistant", content |-> c,
                     toolCalls |-> NewLLMToolCalls(names),
                     toolResults |-> <<>>, end |-> e]
          /\ replies' = Append(replies, [run |-> self, msg |-> cur'])
          /\ pc' = IF names # <<>> THEN "tools" ELSE "append"
    /\ llmCalls' = llmCalls + 1
    /\ idx' = 1
    /\ results' = <<>>
    /\ UNCHANGED <<config, sched, wire, messages, usage, result, err, llmFailed, invoked>>

CallToolNotFound_counted ==
    /\ pc = "tools"
    /\ cur.toolCalls[idx].name \notin tools
    /\ usage' = Inc(usage, cur.toolCalls[idx].name)
    /\ Return(NilResult,
              WrapKind("ErrToolError",
                       WrapKind("ErrToolNotFound", Plain(cur.toolCalls[idx].name))))
    /\ results' = <<>>
    /\ UNCHANGED <<config, sched, wire, replies, messages, cur, idx, llmCalls, llmFailed, invoked>>

CallToolNotFound_appended ==
    /\ pc = "tools"
    /\ cur.toolCalls[idx].name \notin tools
    /\ messages' = AddMessage(messages, [cur EXCEPT !.toolResults = results])
    /\ Return(NilResult,
              WrapKind("ErrToolError",
                       WrapKind("ErrToolNotFound", Plain(cur.toolCalls[idx].name))))
    /\ results' = <<>>
    /\ UNCHANGED <<config, sched, wire, replies, usage, cur, idx, llmCalls, llmFailed, invoked>>

\* callTools: the call names no registered tool
CallToolNotFound ==
    /\ pc = "tools"
    /\ cur.toolCalls[idx].name \notin tools
    /\ Return(NilResult,
              WrapKind("ErrToolError",
                       WrapKind("ErrToolNotFound", Plain(cur.toolCalls[idx].name))))
    /\ results' = <<>>
    /\ UNCHANGED <<config, sched, wire, replies, messages, usage, cur, idx, llmCalls, llmFailed, invoked>>

CallToolFail_skipped ==
    /\ pc = "tools"
    /\ cur.toolCalls[idx].name \in tools
    /\ invoked' = Append(invoked, [run |-> self, name |-> cur.toolCalls[idx].name, ok |-> FALSE, id |-> cur.toolCalls[idx].id])
    /\ idx' = idx + 1
    /\ IF idx = Len(cur.toolCalls)
       THEN /\ cur' = [cur EXCEPT !.toolResults = results]
            /\ pc' = "append"
       ELSE UNCHANGED <<cur, pc>>
    /\ UNCHANGED <<config, sched, wire, replies, messages, usage, results, result, err, llmCalls, llmFailed>>

\* callTools: the tool's Call returns an error
CallToolFail ==
    /\ pc = "tools"
    /\ cur.toolCalls[idx].name \in tools
    /\ invoked' = Append(invoked, [run |-> self, name |-> cur.toolCalls[idx].name, ok |-> FALSE, id |-> cur.toolCalls[idx].id])
    /\ Return(NilResult,
              WrapKind("ErrToolError", WrapKind("ErrToolError", Plain("tool"))))
    /\ results' = <<>>
    /\ UNCHANGED <<config, sched, wire, replies, messages, usage, cur, idx, llmCalls, llmFailed>>

CallToolOk_prepend ==
    /\ pc = "tools"
    /\ cur.toolCalls[idx].name \in tools
    /\ LET call == cur.toolCalls[idx]
           res  == <<[id |-> call.id, name |-> call.name]>> \o results
       IN  /\ invoked' = Append(invoked, [run |-> self, name |-> call.name, ok |-> TRUE, id |-> call.id])
           /\ usage' = Inc(usage, call.name)
           /\ results' = res
           /\ idx' = idx + 1
           /\ IF idx = Len(cur.toolCalls)
              THEN /\ cur' = [cur EXCEPT !.toolResults = res]
                   /\ pc' = "append"
              ELSE UNCHANGED <<cur, pc>>
    /\ UNCHANGED <<config, sched, wire, replies, messages, result, err, llmCalls, llmFailed>>

\* callTools: the tool's Call succeeds; after the last call of the batch the
\* results are attached to the message
CallToolOk ==
    /\ pc = "tools"
    /\ cur.toolCalls[idx].name \in tools
    /\ LET call == cur.toolCalls[idx]
           res  == Append(results, [id |-> call.id, name |-> call.name])
       IN  /\ invoked' = Append(invoked, [run |-> self, name |-> call.name, ok |-> TRUE, id |-> call.id])
           /\ usage' = Inc(usage, call.name)
           /\ results' = res
           /\ idx' = idx + 1
           /\ IF idx = Len(cur.toolCalls)
              THEN /\ cur' = [cur EXCEPT !.toolResults = res]
                   /\ pc' = "append"
              ELSE UNCHANGED <<cur, pc>>
    /\ UNCHANGED <<config, sched, wire, replies, messages, result, err, llmCalls, llmFailed>>

\* state.AddMessage and the return on a terminal message
AppendAndEnd ==
    /\ pc = "append"
    /\ IsEnd(cur)
    /\ messages' = AddMessage(messages, cur)
    /\ LET r == createResult(AddMessage(messages, cur))
       IN  Return(r.res, r.err)
    /\ UNCHANGED <<config, sched, wire, replies, usage, cur, idx, results, llmCalls, llmFailed, invoked>>

AppendAndRefresh_stale ==
    /\ pc = "append"
    /\ ~IsEnd(cur)
    /\ LET r == createSystemPrompt(EmptyMap)
       IN  IF r.err # NoErr
           THEN /\ messages' = AddMessage(messages, cur)
                /\ Return(NilResult, WrapText("failed to update system prompt", r.err))
           ELSE /\ messages' = SetSystemPrompt(AddMessage(messages, cur), r.text)
                /\ pc' = "loop"
                /\ UNCHANGED <<result, err>>
    /\ UNCHANGED <<config, sched, wire, replies, usage, cur, idx, results, llmCalls, llmFailed, invoked>>

\* state.AddMessage and the refresh of the system prompt
AppendAndRefresh ==
    /\ pc = "append"
    /\ ~IsEnd(cur)
    /\ LET r == createSystemPrompt(usage)
       IN  IF r.err # NoErr
           THEN /\ messages' = AddMessage(messages, cur)
                /\ Return(NilResult, WrapText("failed to update system prompt", r.err))
           ELSE /\ messages' = SetSystemPrompt(AddMessage(messages, cur), r.text)
                /\ pc' = "loop"
                /\ UNCHANGED <<result, err>>
    /\ UNCHANGED <<config, sched, wire, replies, usage, cur, idx, results, llmCalls, llmFailed, invoked>>

Next ==
    \/ CreateInitState
    \/ RunLoop
    \/ LLMCallFail
    \/ LLMCallOk
    \/ CallToolNotFound
    \/ CallToolFail
    \/ CallToolOk
    \/ AppendAndEnd
    \/ AppendAndRefresh

LocalAfterSwitch_shared(mine, theirs) == mine

\* A run's local after the other run has run: its own, kept with the call.
LocalAfterSwitch(mine, theirs) == theirs

\* The scheduler passes control to the other run of the same Agent; each
\* call of Run has its own state and usage (Run's locals).
Switch ==
    /\ parked.pc \notin {"none", "done"}
    /\ self' = 3 - self
    /\ parked' = RunLocals
    /\ pc' = parked.pc
    /\ messages' = LocalAfterSwitch(messages, parked.messages)
    /\ usage' = LocalAfterSwitch(usage, parked.usage)
    /\ cur' = parked.cur
    /\ idx' = parked.idx
    /\ results' = parked.results
    /\ result' = parked.result
    /\ err' = parked.err
    /\ llmCalls' = parked.llmCalls
    /\ llmFailed' = parked.llmFailed
    /\ UNCHANGED <<config, wire, invoked, replies>>

NextTwo == Next \/ Switch

\* two runs of one agent.go Agent
InitTwo ==
    /\ tools = {"add"}
    /\ limits = [t \in {"add"} |-> 1]
    /\ template = "default"
    /\ input = "ok"
    /\ legacy = FALSE
    /\ parked = StartLocals
    /\ InitRun

\* agent.go
Spec == Init /\ [][Next]_vars

\* agent.go, two runs
SpecTwo == InitTwo /\ [][NextTwo]_vars

\* part_000
SpecLegacy == InitLegacy /\ [][Next]_vars

\* both revisions
SpecBoth == InitBoth /\ [][Next]_vars

\* WithSystemPrompt: a template may also name a variable createSystemPrompt
\* does not pass
RenderTemplates == Templates \cup {"missingvar"}

InitRender ==
    /\ tools = {"add"}
    /\ limits \in {EmptyMap, [t \in {"add"} |-> 1]}
    /\ template \in RenderTemplates
    /\ input = "ok"
    /\ legacy = FALSE
    /\ parked = NoRun
    /\ InitRun

\* agent.go with any template
SpecRender == InitRender /\ [][Next]_vars

\* ------------------------------------------- the OpenAI Model Client
FinishReasons == {"stop", "length", "tool_calls", "content_filter"}

\* Function.Arguments of a tool call: the text of a JSON object, or not
ArgTexts == {"object", "malformed"}

ChoiceContents == {"valid", "invalid"}

\* the tool calls of a completion choice; the call id is the position
ApiToolCalls(calls) ==
    [i \in 1..Len(calls) |-> [id |-> i, name |-> calls[i][1], args |-> calls[i][2]]]

Choices ==
    {[content |-> c, finishReason |-> f, toolCalls |-> ApiToolCalls(calls)] :
        c \in ChoiceContents, f \in FinishReasons,
        calls \in SeqsUpTo({"add"} \X ArgTexts, MaxToolCalls)}

\* createLLMToolCalls: a call whose arguments do not unmarshal is skipped
RECURSIVE KeepParsed(_)
KeepParsed(calls) ==
    IF calls = <<>> THEN <<>>
    ELSE LET rest == KeepParsed(SubSeq(calls, 1, Len(calls) - 1))
             call == Last(calls)
         IN  IF call.args = "object"
             THEN Append(rest, [id |-> call.id, name |-> call.name])
             ELSE rest

createLLMToolCalls(choice) == KeepParsed(choice.toolCalls)

newLLMMessage(choice) ==
    [type        |-> "assistant",
     content     |-> choice.content,
     toolCalls   |-> createLLMToolCalls(choice),
     toolResults |-> <<>>,
     end         |-> choice.finishReason \in {"stop", "length"}]

\* createMessages: one chat message per system, user or assistant message,
\* built from its content
createMessages(msgs) ==
    LET known == SelectSeq(msgs, LAMBDA m : m.type \in {"system", "user", "assistant"})
    IN  [i \in 1..Len(known) |-> [role |-> known[i].type, content |-> known[i].content]]

\* the non-terminal assistant messages Run appends after a dispatch
DispatchedMessages ==
    {[type        |-> "assistant",
      content     |-> "invalid",
      toolCalls   |-> NewLLMToolCalls(names),
      toolResults |-> NewLLMToolCalls(names),
      end         |-> FALSE] : names \in SeqsUpTo({"add"}, MaxToolCalls)}

\* the message lists Run passes to the Model Client
Transcripts ==
    LET sys == NewLLMMessage("system", createSystemPrompt(EmptyMap).text)
        usr == NewLLMMessage("user", "input")
    IN  {<<sys, usr>>} \cup {<<sys, usr, m>> : m \in DispatchedMessages}

\* openAILLM.Call is entered with the messages of a run
InitOpenAI ==
    /\ tools = {"add"}
    /\ limits = EmptyMap
    /\ template = "default"
    /\ input = "ok"
    /\ legacy = FALSE
    /\ parked = NoRun
    /\ pc = "client"
    /\ messages \in Transcripts
    /\ usage = EmptyMap
    /\ cur = NoMsg
    /\ idx = 0
    /\ results = <<>>
    /\ result = NilResult
    /\ err = NoErr
    /\ llmCalls = 0
    /\ llmFailed = FALSE
    /\ invoked = <<>>
    /\ replies = <<>>
    /\ self = 1
    /\ request = <<>>
    /\ completion = NoChoice

\* what openAILLM.Call leaves alone
ClientFrame ==
    UNCHANGED <<config, sched, messages, usage, idx, results, result, invoked, replies>>

\* the API call returns an error
OpenAICallFail ==
    /\ pc = "client"
    /\ request' = createMessages(messages)
    /\ completion' = NoChoice
    /\ cur' = NoMsg
    /\ err' = WrapText("OpenAI API call failed", Plain("api"))
    /\ llmCalls' = llmCalls + 1
    /\ llmFailed' = TRUE
    /\ pc' = "returned"
    /\ ClientFrame

\* the completion has no choice
OpenAINoChoices ==
    /\ pc = "client"
    /\ request' = createMessages(messages)
    /\ completion' = NoChoice
    /\ cur' = NoMsg
    /\ err' = Plain("no response from OpenAI")
    /\ llmCalls' = llmCalls + 1
    /\ llmFailed' = TRUE
    /\ pc' = "returned"
    /\ ClientFrame

\* the completion's first choice becomes the returned message
OpenAICallOk ==
    /\ pc = "client"
    /\ request' = createMessages(messages)
    /\ \E choice \in Choices :
          /\ completion' = choice
          /\ cur' = newLLMMessage(choice)
    /\ llmCalls' = llmCalls + 1
    /\ pc' = "returned"
    /\ UNCHANGED <<err, llmFailed>>
    /\ ClientFrame

NextOpenAI ==
    \/ OpenAICallFail
    \/ OpenAINoChoices
    \/ OpenAICallOk

\* part_005
SpecOpenAI == InitOpenAI /\ [][NextOpenAI]_vars

\* ------------------------------------------------------------- claims
OneLimitedTool == tools = {"add"} /\ limits = [t \in {"add"} |-> 1]

\* every tool with a configured limit has been invoked and has a usage count
\* at or above its limit (the case isLimitReached itself recognises)
AllLimitedExhausted ==
    /\ DOMAIN limits # {}
    /\ \A t \in DOMAIN limits : t \in DOMAIN usage /\ usage[t] >= limits[t]

\* C1: once every limited tool has a usage count at or above its limit, Run
\* makes no further Model Client call and invokes no further tool.
C1_NoCallAfterExhaustion ==
    [][AllLimitedExhausted => (llmCalls' = llmCalls /\ invoked' = invoked)]_vars

\* the first reply asked for the tool once, was not terminal, and the tool
\* succeeded: the message was appended with its result
FirstReplyCallsAdd ==
    /\ Len(messages) >= 3
    /\ Len(messages[3].toolCalls) = 1
    /\ messages[3].toolCalls[1].name = "add"
    /\ ~messages[3].end

SecondReply == IF Len(messages) >= 4 THEN messages[4] ELSE cur

SecondReplyTerminalValid ==
    /\ SecondReply.end
    /\ SecondReply.content = "valid"
    /\ SecondReply.toolCalls = <<>>

OneOfTwoExhausted ==
    /\ Cardinality(DOMAIN limits) = 2
    /\ \E t \in DOMAIN limits : Count(usage, t) >= limits[t]
    /\ \E t \in DOMAIN limits : Count(usage, t) < limits[t]

\* C3: with two limited tools of which only one has reached its limit, the
\* limit check does not stop the run: Run goes on to the Model Client call.
C3_OneExhaustedContinues ==
    [][(pc = "loop" /\ OneOfTwoExhausted) => pc' = "call"]_vars

C3_Witness ==
    /\ legacy
    /\ pc = "call"
    /\ llmCalls >= 1
    /\ OneOfTwoExhausted
    /\ \E t \in DOMAIN limits : limits[t] > 0 /\ Count(usage, t) >= limits[t]

\* C4: with an empty limits map the limit check never reports "limit
\* reached": no run ends with ErrLimitReached.
C4_NoLimitsNeverLimitReached ==
    DOMAIN limits = {} => "ErrLimitReached" \notin err.is

\* C5: after a message with the terminal flag no further Model Client call
\* is made; the loop ends in the iteration that received it.
C5_EndStopsCalls ==
    [][cur.end => (llmCalls' = llmCalls /\ pc' \in {"tools", "append", "done"})]_vars

C5_Witness ==
    /\ cur.end
    /\ cur.toolCalls # <<>>
    /\ pc = "done"
    /\ Last(messages) = cur
    /\ llmCalls < MaxCalls

\* the batch being dispatched names a tool that is not registered
BatchNamesUnknownTool ==
    /\ pc = "tools"
    /\ \E i \in 1..Len(cur.toolCalls) : cur.toolCalls[i].name \notin tools

\* C6: a batch that names an unregistered tool aborts the run with an error
\* in which ErrToolNotFound is identifiable, and increments no usage counter.
C6_UnknownToolAborts ==
    [][BatchNamesUnknownTool =>
         /\ usage' = usage
         /\ pc' = "done" => "ErrToolNotFound" \in err'.is]_vars

ReturnedOnTerminal ==
    /\ pc = "done"
    /\ messages # <<>>
    /\ Last(messages).end

\* C8: a terminal message whose content fails validation gives a nil result
\* and ErrInvalidResultSchema; no result is decoded from such content.
C8_InvalidTerminalContent ==
    /\ (ReturnedOnTerminal /\ ContentClass(Last(messages)) \in {"invalid", "malformed"})
          => (result.nil /\ "ErrInvalidResultSchema" \in err.is)
    /\ ~result.nil => ContentClass(Last(result.messages)) = "valid"

C8_Witness ==
    /\ ReturnedOnTerminal
    /\ ContentClass(Last(messages)) = "invalid"
    /\ result.nil
    /\ "ErrInvalidResultSchema" \in err.is

\* C9: a decode failure is reported with the ErrInvalidResultSchema kind.
C9_DecodeFailureKind ==
    (ReturnedOnTerminal /\ ContentClass(Last(messages)) = "undecodable")
        => "ErrInvalidResultSchema" \in err.is

\* C10: a failed Model Client call ends the run at once with ErrLLMCall and
\* a nil result; the call is not retried, and no tool is invoked, no message
\* appended and no usage counter changed by it or after it.
C10_LLMErrorAborts ==
    [][/\ llmFailed' =>
            /\ pc' = "done"
            /\ result'.nil
            /\ "ErrLLMCall" \in err'.is
            /\ messages' = messages
            /\ usage' = usage
            /\ invoked' = invoked
       /\ llmFailed => llmCalls' = llmCalls]_vars

C10_Witness ==
    /\ llmFailed
    /\ llmCalls = 2
    /\ usage # EmptyMap
    /\ pc = "done"

\* C11: a failed tool invocation ends the run at once with ErrToolError and
\* a nil result; the failed call is not counted, and after it no tool is
\* invoked (the rest of the batch included) and no Model Client call made.
C11_ToolErrorAborts ==
    [][/\ (invoked' # invoked /\ ~Last(invoked').ok) =>
            /\ pc' = "done"
            /\ result'.nil
            /\ "ErrToolError" \in err'.is
            /\ usage' = usage
       /\ (invoked # <<>> /\ ~Last(invoked).ok) =>
            /\ invoked' = invoked
            /\ llmCalls' = llmCalls
            /\ usage' = usage]_vars

C11_Witness ==
    /\ pc = "done"
    /\ invoked # <<>>
    /\ ~Last(invoked).ok
    /\ idx = 1
    /\ Len(cur.toolCalls) = 2
    /\ cur.toolCalls[2].name \in tools

\* the successful invocations of tool t by run r so far
Successes(r, t) ==
    Cardinality({i \in 1..Len(invoked) :
                    invoked[i].run = r /\ invoked[i].name = t /\ invoked[i].ok})

UsageCountsSuccesses == \A t \in CallNames : Count(usage, t) = Successes(self, t)

\* C12: every usage counter equals the number of successful invocations of
\* its tool so far in the run; a step leaves a counter alone or adds one.
C12_UsageCountsSuccesses ==
    /\ []UsageCountsSuccesses
    /\ [][\A t \in CallNames :
             Count(usage', t) \in {Count(usage, t), Count(usage, t) + 1}]_vars

C12_Witness ==
    /\ Len(invoked) = 2
    /\ invoked[1].ok
    /\ ~invoked[2].ok
    /\ invoked[1].name = invoked[2].name
    /\ Count(usage, invoked[1].name) = 1

\* the locals of run r
LocalsOf(r) == IF r = self THEN RunLocals ELSE parked

\* the replies the Model Client gave run r, in order
RepliesOf(r) == SelectSeq(replies, LAMBDA x : x.run = r)

SameReply(m, reply) ==
    /\ m.type = "assistant"
    /\ m.content = reply.content
    /\ m.toolCalls = reply.toolCalls
    /\ m.end = reply.end

\* the usage maps that count successful invocations of run r only
OwnUsages(r) ==
    UNION {{u \in [D -> 1..Len(invoked)] : \A t \in D : u[t] <= Successes(r, t)} :
              D \in SUBSET tools}

\* run r's counters and Conversation State come from run r's steps only
OwnState(r) ==
    LET L == LocalsOf(r)
        R == RepliesOf(r)
    IN  /\ \A t \in CallNames : Count(L.usage, t) = Successes(r, t)
        /\ Len(L.messages) - 2 <= Len(R)
        /\ \A i \in 3..Len(L.messages) : SameReply(L.messages[i], R[i - 2].msg)
        /\ L.messages # <<>> =>
             /\ L.messages[1].type = "system"
             /\ \E u \in OwnUsages(r) :
                  L.messages[1].content = createSystemPrompt(u).text

\* C13: in any interleaving of two runs of one Agent, each run's counters
\* count that run's invocations only, each run's Conversation State holds
\* that run's messages only, and the Agent's configuration never changes.
C13_RunsIndependent ==
    /\ [](OwnState(1) /\ OwnState(2))
    /\ [][config' = config]_vars

C13_Witness ==
    /\ pc = "loop"
    /\ parked.pc = "loop"
    /\ Count(usage, "add") = 1
    /\ Count(parked.usage, "add") = 1
    /\ Len(replies) = 2
    /\ replies[1].msg.content # replies[2].msg.content

\* C14: only registered tools have a usage counter.
C14_UsageKeysRegistered == DOMAIN usage \subseteq tools

C14_Witness ==
    /\ pc = "done"
    /\ usage # EmptyMap
    /\ idx = 2
    /\ Len(cur.toolCalls) = 2
    /\ cur.toolCalls[2].name \notin tools
    /\ "ErrToolError" \in err.is

\* createInitState has returned a state
Initialised == pc \in {"loop", "call", "tools", "append"} \/ (pc = "done" /\ llmCalls > 0)

\* C15: once initialised, Conversation State starts with the system message,
\* followed by the user message that carries the input.
C15_SystemThenUser ==
    Initialised =>
        /\ Len(messages) >= 2
        /\ messages[1].type = "system"
        /\ messages[2] = NewLLMMessage("user", "input")

C15_Witness ==
    /\ pc = "done"
    /\ Len(messages) = 4
    /\ usage # EmptyMap
    /\ err = NoErr

\* C16: a step appends at most one message, leaves every message after the
\* first as it is, and changes nothing of the first but its content.
C16_AppendOnly ==
    [][messages # <<>> =>
         /\ Len(messages') \in {Len(messages), Len(messages) + 1}
         /\ \A i \in 2..Len(messages) : messages'[i] = messages[i]
         /\ [messages'[1] EXCEPT !.content = messages[1].content] = messages[1]]_vars

C16_Witness ==
    /\ pc = "loop"
    /\ Len(messages) = 4
    /\ messages[1].content # createSystemPrompt(EmptyMap).text
    /\ messages[3].toolResults # <<>>

NoEndReply == \A i \in 1..Len(replies) : ~replies[i].msg.end

NoToolFailure == \A i \in 1..Len(invoked) : invoked[i].ok

OnlyRegisteredRequested ==
    \A i \in 1..Len(replies) :
        \A j \in 1..Len(replies[i].msg.toolCalls) :
            replies[i].msg.toolCalls[j].name \in tools

\* the loop has been entered by an agent with no limits, and so far no
\* reply was terminal, no Model Client call failed and no tool failed
UnlimitedUnendedRun ==
    /\ limits = EmptyMap
    /\ messages # <<>>
    /\ NoEndReply
    /\ ~llmFailed
    /\ NoToolFailure

NoToolsFirstReplyTerminalValid ==
    /\ tools = {}
    /\ limits = EmptyMap
    /\ replies # <<>>
    /\ replies[1].msg.end
    /\ replies[1].msg.content = "valid"

OneCallThenResult ==
    /\ llmCalls = 1
    /\ pc = "done" =>
         /\ err = NoErr
         /\ ~result.nil
         /\ result.data = "valid"

C19_FullTranscript ==
    /\ (pc = "done" /\ err = NoErr) =>
         /\ ~result.nil
         /\ Len(result.messages) = 2 + llmCalls
         /\ Len(replies) = llmCalls
         /\ result.messages[1].type = "system"
         /\ result.messages[2] = NewLLMMessage("user", "input")
         /\ \A i \in 1..llmCalls : SameReply(result.messages[i + 2], replies[i].msg)
         /\ Last(result.messages).end
         /\ result.data = Last(result.messages).content
    /\ (pc = "done" /\ err # NoErr /\ "ErrLimitReached" \notin err.is) => result.nil

C19_Witness ==
    /\ pc = "done"
    /\ err = NoErr
    /\ llmCalls = 2
    /\ Len(result.messages) = 4
    /\ result.messages[3].toolResults # <<>>

\* the rendered system prompt holds, after the five values createSystemPrompt
\* passes, the placeholder of a missing variable
HasPlaceholder(text) == \E i \in 6..Len(text) : text[i] = "<no value>"

\* C21: rendering a malformed template, or one that names a variable absent
\* from the arguments, gives a rendering error and no text, never a text
\* with the missing variable replaced by a placeholder.
C21_RenderFailsOnBadTemplate ==
    /\ (template \in {"malformed", "missingvar"} /\ pc # "start") =>
         /\ pc = "done"
         /\ messages = <<>>
         /\ result.nil
         /\ err # NoErr
    /\ messages # <<>> => ~HasPlaceholder(messages[1].content)

\* the result of invoking the tool a call names with the call's id
ResultOf(call) == [id |-> call.id, name |-> call.name]

\* the first n calls of the message being dispatched are the last n
\* invocations, in order, and gave the n results collected so far
DispatchedInOrder(n) ==
    /\ Len(results) = n
    /\ Len(invoked) >= n
    /\ \A i \in 1..n :
         LET call == cur.toolCalls[i]
             inv  == invoked[Len(invoked) - n + i]
         IN  /\ results[i] = ResultOf(call)
             /\ inv.ok
             /\ inv.id = call.id
             /\ inv.name = call.name

\* the results attached to a message answer its calls one by one
ResultsMatchCalls(m) ==
    m.toolResults # <<>> =>
        /\ Len(m.toolResults) = Len(m.toolCalls)
        /\ \A i \in 1..Len(m.toolCalls) : m.toolResults[i] = ResultOf(m.toolCalls[i])

DispatchOrdered ==
    /\ pc = "tools" => DispatchedInOrder(idx - 1)
    /\ pc = "append" =>
         /\ DispatchedInOrder(Len(cur.toolCalls))
         /\ cur.toolResults = results
         /\ ResultsMatchCalls(cur)
    /\ \A i \in 1..Len(messages) : ResultsMatchCalls(messages[i])

\* C22: the calls of one message are invoked one at a time in the message's
\* order, and on success the attached results are as many as the calls, the
\* i-th being the result of the i-th call invoked with that call's id.
C22_DispatchOrdered ==
    /\ []DispatchOrdered
    /\ [][Len(invoked') \in {Len(invoked), Len(invoked) + 1}]_vars

C22_Witness ==
    /\ pc = "done"
    /\ err = NoErr
    /\ Len(Last(messages).toolCalls) = 2
    /\ Last(messages).toolCalls[1].name = Last(messages).toolCalls[2].name
    /\ Len(Last(messages).toolResults) = 2

\* C23: at every Model Client call message 0 holds the system prompt
\* rendered with the usage counters of that moment: empty usage at the first
\* call, the updated counters after each non-terminal iteration.
C23_PromptReflectsUsage ==
    pc = "call" =>
        /\ messages[1].type = "system"
        /\ messages[1].content = createSystemPrompt(usage).text
        /\ llmCalls = 0 => usage = EmptyMap

C23_Witness ==
    /\ pc = "call"
    /\ llmCalls = 1
    /\ usage # EmptyMap
    /\ messages[1].content # createSystemPrompt(EmptyMap).text

\* Run returned because the dispatch of a batch failed
DispatchFailed == pc = "done" /\ "ErrToolError" \in err.is

\* C24: when the dispatch of a batch fails, the assistant message of that
\* iteration is not appended to Conversation State, and no result of the
\* calls that succeeded earlier in the batch is attached or returned.
C24_FailedBatchDiscarded ==
    DispatchFailed =>
        /\ result.nil
        /\ results = <<>>
        /\ cur.toolResults = <<>>
        /\ Len(replies) = llmCalls
        /\ Len(messages) = 2 + (llmCalls - 1)
        /\ \A i \in 3..Len(messages) : SameReply(messages[i], replies[i - 2].msg)

C24_Witness ==
    /\ DispatchFailed
    /\ idx = 2
    /\ usage # EmptyMap
    /\ llmCalls = 1

\* every tool with a limit has been invoked at least as often as its limit,
\* a tool never invoked counting 0
EveryLimitExhausted == \A t \in DOMAIN limits : Count(usage, t) >= limits[t]

\* C25: with a non-empty limits map the limit check reports limit reached
\* exactly when every limited tool's count, 0 if never invoked, is at least
\* its limit.
C25_LimitReachedExactly ==
    [][(pc = "loop" /\ LimitCheckActive /\ limits # EmptyMap) =>
         (("ErrLimitReached" \in err'.is) <=> EveryLimitExhausted)]_vars

\* the chat message carries the tool result
Carries(chatMessage, toolResult) ==
    /\ chatMessage.role = "tool"
    /\ chatMessage.content = toolResult

\* C26: the tool results attached to the messages Run passes to the Model
\* Client are part of the request the OpenAI Model Client builds from them.
C26_ResultsReachModel ==
    (pc = "returned" /\ completion # NoChoice) =>
        \A i \in 1..Len(messages) :
            \A j \in 1..Len(messages[i].toolResults) :
                \E k \in 1..Len(request) : Carries(request[k], messages[i].toolResults[j])

\* the message carries the calls of the completion choice, in order
CarriesCalls(m, choice) ==
    /\ Len(m.toolCalls) = Len(choice.toolCalls)
    /\ \A i \in 1..Len(choice.toolCalls) :
         /\ m.toolCalls[i].id = choice.toolCalls[i].id
         /\ m.toolCalls[i].name = choice.toolCalls[i].name

\* C28: the returned message is terminal exactly when the finish reason is
\* stop or length; a completion that finishes to request tool calls gives a
\* non-terminal message carrying those calls; a completion without tool
\* calls gives a message without tool calls.
C28_ClientMessage ==
    (pc = "returned" /\ completion # NoChoice) =>
        /\ cur.end <=> completion.finishReason \in {"stop", "length"}
        /\ completion.finishReason = "tool_calls" =>
             (~cur.end /\ CarriesCalls(cur, completion))
        /\ completion.toolCalls = <<>> => cur.toolCalls = <<>>

\* the initial rendering fails or gives the empty text
InitialPromptUnusable ==
    LET r == createSystemPrompt(EmptyMap)
    IN  r.err # NoErr \/ r.text = <<>>

\* the refresh about to be made fails
RefreshFails == pc = "append" /\ ~IsEnd(cur) /\ createSystemPrompt(usage).err # NoErr

\* Run returned a prompt failure
PromptFailure ==
    /\ pc = "done"
    /\ result.nil
    /\ \/ "ErrEmptySystemPrompt" \in err.is
       \/ /\ err.text # <<>>
          /\ err.text[1] \in {"failed to create system prompt",
                              "failed to update system prompt"}

EndedOnModelEnd ==
    /\ pc = "done"
    /\ llmFailed \/ (replies # <<>> /\ Last(replies).msg.end)

\* the outcomes of a run, by the returned result and the error's kinds
Outcomes ==
    {o \in {"success", "invalid result schema", "model call failure",
            "tool failure", "prompt render failure"} :
        CASE o = "success"               -> err = NoErr /\ ~result.nil
          [] o = "invalid result schema" -> "ErrInvalidResultSchema" \in err.is
          [] o = "model call failure"    -> "ErrLLMCall" \in err.is
          [] o = "tool failure"          -> "ErrToolError" \in err.is
          [] OTHER                       -> PromptFailure}

\* C29: a run in which the model returned an error or a terminal message
\* ends in exactly one of success, invalid result schema, model call
\* failure, tool failure and prompt render failure.
C29_EndsClassified == EndedOnModelEnd => Cardinality(Outcomes) = 1

====
